---- MODULE Spec2Model ----
(***************************************************************************)
(* A model of gltf-starfield (main.ts): the Yale Bright Star Catalog is    *)
(* acquired, parsed line by line into star records, and every record       *)
(* becomes one glTF node on the unit sphere.                               *)
(*                                                                         *)
(* Representation of JavaScript values                                     *)
(*  - a string is a sequence of one-character strings;                     *)
(*  - a number is a record [nan, inf, m, x]: NaN, or Infinity with the     *)
(*    sign inf, or the decimal m * 10 ^ x (mantissas of up to 9 digits);   *)
(*  - the angles derived from the catalog fields are records [nan, v],     *)
(*    kept exactly, in milli-arcseconds (1/3600000 degree), for fields of  *)
(*    at most 3 decimals within the range of the integers, and the terms   *)
(*    of the sum, not evaluated, for the others;                           *)
(*  - quaternion and vector components are in hundred-millionths, stored   *)
(*    rotation and scale in hundredths, stored translation in thousandths, *)
(*    colours in millionths;                                               *)
(*  - undefined (st[0] of an empty string) is the string "undefined";      *)
(*  - a reference to a Material is its index in the document's material    *)
(*    list, 0 when the reference is undefined.                             *)
(* Math.sin, Math.cos and ** are tables over the angles and magnitudes of  *)
(* the bounded catalog lines.                                              *)
(***************************************************************************)
EXTENDS Integers, Sequences, FiniteSets, TLC

\* Longest catalog (number of lines of bsc5.dat) the model explores.
MaxLines == 3

Min(a, b) == IF a < b THEN a ELSE b
Abs(n) == IF n < 0 THEN -n ELSE n

----------------------------------------------------------------------------
(* Strings and numbers *)

Digits == {"0", "1", "2", "3", "4", "5", "6", "7", "8", "9"}
HexLetters == {"a", "b", "c", "d", "e", "f", "A", "B", "C", "D", "E", "F"}
DigitVal == [c \in Digits \cup HexLetters |->
               CASE c = "0" -> 0 [] c = "1" -> 1 [] c = "2" -> 2 [] c = "3" -> 3
                 [] c = "4" -> 4 [] c = "5" -> 5 [] c = "6" -> 6 [] c = "7" -> 7
                 [] c = "8" -> 8 [] c = "9" -> 9
                 [] c \in {"a", "A"} -> 10 [] c \in {"b", "B"} -> 11
                 [] c \in {"c", "C"} -> 12 [] c \in {"d", "D"} -> 13
                 [] c \in {"e", "E"} -> 14 [] c \in {"f", "F"} -> 15]

\* The digits of a radix: parseInt reads base 10 or, after 0x, base 16.
RadixDigits(radix) == IF radix = 16 THEN Digits \cup HexLetters ELSE Digits

\* White space without an escape in a string: the vertical tab U+000B, the
\* no-break space U+00A0, the Ogham space mark U+1680 and the zero width
\* no-break space U+FEFF.
VT == ""
NBSP == " "
OghamSpaceMark == " "
ZWNBSP == "﻿"

\* WhiteSpace and LineTerminator of ECMAScript, which trim, parseInt and
\* parseFloat skip.  Those left out (U+2000 to U+200A, U+2028, U+2029,
\* U+202F, U+205F, U+3000) cannot be written in a string here, so that no
\* text of the model holds them.
StrWhiteSpace ==
  {" ", "\t", VT, "\f", NBSP, OghamSpaceMark, ZWNBSP, "\n", "\r"}

NaN == [nan |-> TRUE, inf |-> 0, m |-> 0, x |-> 0]

\* Infinity (sign 1) and -Infinity (sign -1).
Infinite(sign) == [nan |-> FALSE, inf |-> sign, m |-> 0, x |-> 0]

\* The finite number m * 10 ^ x, with m stripped of its trailing zeros so
\* that equal numbers are equal records.
RECURSIVE Num(_, _)
Num(m, x) ==
  IF m = 0 THEN [nan |-> FALSE, inf |-> 0, m |-> 0, x |-> 0]
  ELSE IF m % 10 = 0 THEN Num(m \div 10, x + 1)
  ELSE [nan |-> FALSE, inf |-> 0, m |-> m, x |-> x]

isNaN(n) == n.nan

\* A finite number in thousandths; for numbers of at most 3 decimals.
Milli(n) == n.m * 10 ^ (n.x + 3)

\* NaN for an angle, and the angle of v milli-arcseconds.
NaNAngle == [nan |-> TRUE, v |-> 0]
Angle(v) == [nan |-> FALSE, v |-> v]

\* String.prototype.substring(a, b), both indices clamped to the length.
substring(l, a, b) == SubSeq(l, Min(a, Len(l)) + 1, Min(b, Len(l)))

RECURSIVE TrimLeft(_)
TrimLeft(s) ==
  IF s # <<>> /\ Head(s) \in StrWhiteSpace THEN TrimLeft(Tail(s)) ELSE s

RECURSIVE TrimRight(_)
TrimRight(s) ==
  IF s # <<>> /\ s[Len(s)] \in StrWhiteSpace
    THEN TrimRight(SubSeq(s, 1, Len(s) - 1))
    ELSE s

\* String.prototype.trim()
trim(s) == TrimRight(TrimLeft(s))

\* The longest prefix of s made of digits of the radix.
RECURSIVE DigitPrefix(_, _)
DigitPrefix(s, radix) ==
  IF s # <<>> /\ Head(s) \in RadixDigits(radix)
    THEN <<Head(s)>> \o DigitPrefix(Tail(s), radix)
    ELSE <<>>

RECURSIVE DigitsValue(_, _)
DigitsValue(ds, radix) ==
  IF ds = <<>> THEN 0
  ELSE radix * DigitsValue(SubSeq(ds, 1, Len(ds) - 1), radix) + DigitVal[ds[Len(ds)]]

RECURSIVE DropZeros(_)
DropZeros(ds) == IF ds # <<>> /\ Head(ds) = "0" THEN DropZeros(Tail(ds)) ELSE ds

\* The value of the digits of an exponent; beyond 4 digits it is past the
\* range of a double whatever it is, and 9999 stands for it.
ExponentValue(ds) ==
  IF Len(DropZeros(ds)) > 4 THEN 9999 ELSE DigitsValue(DropZeros(ds), 10)

SignOf(s) == IF s # <<>> /\ Head(s) = "-" THEN -1 ELSE 1
DropSign(s) == IF s # <<>> /\ Head(s) \in {"-", "+"} THEN Tail(s) ELSE s

\* s starts with the characters of p.
StartsWith(s, p) == Len(s) >= Len(p) /\ SubSeq(s, 1, Len(p)) = p

\* parseInt(s) with no radix: leading white space, an optional sign, 0x or
\* 0X for base 16, then the digits of the base up to the first other
\* character; NaN when there is no digit.
parseInt(s) ==
  LET t     == TrimLeft(s)
      u     == DropSign(t)
      hex   == StartsWith(u, <<"0", "x">>) \/ StartsWith(u, <<"0", "X">>)
      radix == IF hex THEN 16 ELSE 10
      ds    == DigitPrefix(IF hex THEN SubSeq(u, 3, Len(u)) ELSE u, radix)
  IN  IF ds = <<>> THEN NaN ELSE Num(SignOf(t) * DigitsValue(ds, radix), 0)

\* The number of decimal digits of n > 0.
RECURSIVE DigitCount(_)
DigitCount(n) == IF n < 10 THEN 1 ELSE 1 + DigitCount(n \div 10)

\* The double nearest to sign * m * 10 ^ x, m >= 0 of at most 9 digits:
\* Infinity above the largest double (1.797693134...e308), 0 below half the
\* smallest one (2.470328229...e-324), else the number itself.
Double(sign, m, x) ==
  IF m = 0 THEN Num(0, 0)
  ELSE LET d    == DigitCount(m)
           lead == m * 10 ^ (9 - d)
       IN  IF d + x > 309 \/ (d + x = 309 /\ lead > 179769313)
             THEN Infinite(sign)
           ELSE IF d + x < -323 \/ (d + x = -323 /\ lead <= 247032822)
             THEN Num(0, 0)
           ELSE Num(sign * m, x)

\* parseFloat(s): leading white space, an optional sign, then Infinity, or
\* digits with an optional fraction, or a dot followed by digits, and after
\* either an optional exponent (e or E, an optional sign, digits); NaN when
\* there is no digit.
parseFloat(s) ==
  LET t     == TrimLeft(s)
      u     == DropSign(t)
      ip    == DigitPrefix(u, 10)
      rest  == SubSeq(u, Len(ip) + 1, Len(u))
      dot   == rest # <<>> /\ Head(rest) = "."
      fp    == IF dot THEN DigitPrefix(Tail(rest), 10) ELSE <<>>
      after == IF dot THEN SubSeq(rest, Len(fp) + 2, Len(rest)) ELSE rest
      isExp == after # <<>> /\ Head(after) \in {"e", "E"}
      es    == IF isExp THEN Tail(after) ELSE <<>>
      ed    == DigitPrefix(DropSign(es), 10)
      ex    == IF ed = <<>> THEN 0 ELSE SignOf(es) * ExponentValue(ed)
  IN  IF StartsWith(u, <<"I", "n", "f", "i", "n", "i", "t", "y">>)
        THEN Infinite(SignOf(t))
      ELSE IF ip = <<>> /\ fp = <<>> THEN NaN
      ELSE Double(SignOf(t), DigitsValue(ip \o fp, 10), ex - Len(fp))

----------------------------------------------------------------------------
(* parse: one fixed-width catalog line to one star record *)

\* An angle that the integers of the model cannot hold: sign times the sum
\* of its three terms (units, sixtieths, 3600ths), not evaluated.
Terms(sign, a, b, c) == [nan |-> FALSE, sign |-> sign, terms |-> <<a, b, c>>]

\* a + b / 60 + c / 3600 is NaN: a term is NaN, or Infinity meets -Infinity.
SumIsNaN(a, b, c) ==
  \/ isNaN(a) \/ isNaN(b) \/ isNaN(c)
  \/ {1, -1} \subseteq {a.inf, b.inf, c.inf}

\* n is finite, has at most 3 decimals and is at most lim thousandths in
\* size, so that Milli(n) is its value.
Within(n, lim) ==
  /\ n.inf = 0
  /\ n.x >= -3
  /\ DigitCount(Abs(n.m)) + n.x <= 5
  /\ Abs(Milli(n)) <= lim

\* a + b / 60 + c / 3600, in thousandths of a 3600th.
Sum(a, b, c) == 3600 * Milli(a) + 60 * Milli(b) + Milli(c)

\* ((raH + raM / 60 + raS / 3600) / 24) * 360, in milli-arcseconds, which
\* the integers hold up to 2147483647.
rightAscension(raH, raM, raS) ==
  IF SumIsNaN(raH, raM, raS) THEN NaNAngle
  ELSE IF /\ Within(raH, 99999) /\ Within(raM, 99999) /\ Within(raS, 9999999)
          /\ Abs(Sum(raH, raM, raS)) <= 2147483647 \div 15
    THEN Angle(15 * Sum(raH, raM, raS))
  ELSE Terms(1, raH, raM, raS)

\* deSign * (deDeg + deMin / 60 + deSec / 3600), in milli-arcseconds.
declination(deSign, deDeg, deMin, deSec) ==
  IF SumIsNaN(deDeg, deMin, deSec) THEN NaNAngle
  ELSE IF Within(deDeg, 99999) /\ Within(deMin, 99999) /\ Within(deSec, 9999999)
    THEN Angle(deSign * Sum(deDeg, deMin, deSec))
  ELSE Terms(deSign, deDeg, deMin, deSec)

\* st[0]: the first character, undefined for the empty string.
firstChar(st) == IF st = <<>> THEN "undefined" ELSE Head(st)

\* The fields parse computes from one line, before the NaN test.
parseLine(l) ==
  LET bsn    == parseInt(substring(l, 0, 4))
      name1  == trim(substring(l, 4, 13))
      name2  == trim(substring(l, 14, 25))
      name   == trim(name1 \o <<" ">> \o name2)
      raH    == parseFloat(substring(l, 75, 77))
      raM    == parseFloat(substring(l, 77, 79))
      raS    == parseFloat(substring(l, 79, 83))
      ra     == rightAscension(raH, raM, raS)
      deSign == IF substring(l, 83, 84) = <<"-">> THEN -1 ELSE 1
      deDeg  == parseFloat(substring(l, 84, 86))
      deMin  == parseFloat(substring(l, 86, 88))
      deSec  == parseFloat(substring(l, 88, 90))
      de     == declination(deSign, deDeg, deMin, deSec)
      mag    == parseFloat(substring(l, 102, 107))
      st     == trim(substring(l, 127, 147))
      sc     == firstChar(st)
  IN  [bsn |-> bsn, ra |-> ra, de |-> de, mag |-> mag, sc |-> sc, name |-> name]

\* A plausible slip: the declination is left out of the NaN test.
someIsNaNWithoutDe(star) == isNaN(star.bsn) \/ isNaN(star.ra) \/ isNaN(star.mag)

\* [bsn, ra, de, mag].some(isNaN)
someIsNaN(star) ==
  isNaN(star.bsn) \/ isNaN(star.ra) \/ isNaN(star.de) \/ isNaN(star.mag)

\* A plausible slip: entries[count] = ... without the increment, so every
\* record overwrites the first slot.
storeWithoutIncrement(entries, star) == <<star>>

\* entries[count++] = [bsn, ra, de, mag, sc, name]; count = entries.length.
store(entries, star) == Append(entries, star)

\* The loop of parse over the remaining lines.
RECURSIVE parseLoop(_, _)
parseLoop(lines, entries) ==
  IF lines = <<>> THEN entries
  ELSE LET star == parseLine(Head(lines))
       IN  IF someIsNaN(star)
             THEN parseLoop(Tail(lines), entries)
             ELSE parseLoop(Tail(lines), store(entries, star))

\* parse(data), data given as data.split("\n"), which is never empty.
parse(lines) == parseLoop(lines, <<>>)

----------------------------------------------------------------------------
(* The bounded catalog: lines in the layout of bsc5.dat *)

Blank(n) == [i \in 1 .. n |-> " "]
PadRight(s, n) == SubSeq(s \o Blank(n), 1, n)

\* A catalog line from its fields: id (columns 0-3), name (4-13), DM (14-24),
\* right ascension (75-82), declination (83-89), magnitude (102-106) and
\* spectral type (127-146).
CatalogLine(id, nm, dm, raH, raM, raS, sg, dD, dM, dS, mag, st) ==
  PadRight(id, 4) \o PadRight(nm, 10) \o PadRight(dm, 11) \o Blank(50)
    \o PadRight(raH, 2) \o PadRight(raM, 2) \o PadRight(raS, 4)
    \o PadRight(sg, 1) \o PadRight(dD, 2) \o PadRight(dM, 2) \o PadRight(dS, 2)
    \o Blank(12) \o PadRight(mag, 5) \o Blank(20) \o PadRight(st, 20)

\* HR 2491, Sirius: class A, magnitude -1.46.
LineSirius ==
  CatalogLine(<<"2","4","9","1">>, <<" "," ","9","A","l","p"," ","C","M","a">>,
              <<"B","D","-","1","6"," ","1","5","9","1">>,
              <<"0","6">>, <<"4","5">>, <<"0","8",".","9">>,
              <<"-">>, <<"1","6">>, <<"4","2">>, <<"5","8">>,
              <<"-","1",".","4","6">>, <<"A","1","V","m">>)

\* A carbon star of the old class N, which is none of OWBAFGKMCS.
\* The line is cut after the spectral type and ends in the carriage return
\* of a CRLF file.
LineClassN ==
  SubSeq(CatalogLine(<<" "," "," ","7">>, <<"1","9"," ","P","s","c">>, <<>>,
                     <<"1","2">>, <<"0","0">>, <<"0","0",".","0">>,
                     <<"+">>, <<"6","0">>, <<"0","0">>, <<"0","0">>,
                     <<" ","6",".","2","0">>, <<"N","0">>), 1, 129) \o <<"\r">>

\* A giant in the old notation with a lower-case prefix: gK0.
LineLowerG ==
  CatalogLine(<<" "," ","4","2">>, <<>>, <<"C","D","-","3","0"," ","7">>,
              <<"1","8">>, <<"0","0">>, <<"0","0",".","0">>,
              <<"-">>, <<"3","0">>, <<"0","0">>, <<"0","0">>,
              <<" ","6",".","5","0">>, <<"g","K","0">>)

\* A star without names, cut off after the magnitude: no spectral type.
LineNoType ==
  SubSeq(CatalogLine(<<" "," "," ","9">>, <<>>, <<>>,
                     <<"0","0">>, <<"0","0">>, <<"0","0",".","0">>,
                     <<"+">>, <<"0","0">>, <<"0","0">>, <<"0","0">>,
                     <<" ","7",".","0","0">>, <<>>), 1, 107)

\* A line in other notations: the id in base 16 (0x1f is 31), a no-break
\* space before the name, vertical tabs before the hours and the degrees,
\* the magnitude with an exponent beyond the range of a double (Infinity,
\* which is not NaN), a tab before the spectral type K0.
LineOtherNotation ==
  CatalogLine(<<"0","x","1","f">>, <<NBSP,"H","e","x">>, <<>>,
              <<VT,"0">>, <<"0","0">>, <<"0","0",".","0">>,
              <<"+">>, <<VT,"0">>, <<"0","0">>, <<"0","0">>,
              <<"9","e","9","9","9">>, <<"\t","K","0">>)

\* The last element of split("\n") for a text that ends in a newline.
LineEmpty == <<>>

\* Lines on which exactly one of the four numbers fails to parse.
LineNoId ==
  CatalogLine(<<>>, <<"N","o","I","d">>, <<>>,
              <<"0","6">>, <<"4","5">>, <<"0","8",".","9">>,
              <<"-">>, <<"1","6">>, <<"4","2">>, <<"5","8">>,
              <<" ","6",".","2","0">>, <<"B","9">>)
LineNoRa ==
  CatalogLine(<<" "," ","9","5">>, <<"N","G","C">>, <<>>,
              <<"0","6">>, <<"4","5">>, <<>>,
              <<"-">>, <<"1","6">>, <<"4","2">>, <<"5","8">>,
              <<" ","6",".","2","0">>, <<"B","9">>)
LineNoDe ==
  CatalogLine(<<" "," ","9","6">>, <<"N","G","C">>, <<>>,
              <<"0","6">>, <<"4","5">>, <<"0","8",".","9">>,
              <<"-">>, <<>>, <<"4","2">>, <<"5","8">>,
              <<" ","6",".","2","0">>, <<"B","9">>)
LineNoMag ==
  CatalogLine(<<" "," ","9","7">>, <<"N","G","C">>, <<>>,
              <<"0","6">>, <<"4","5">>, <<"0","8",".","9">>,
              <<"-">>, <<"1","6">>, <<"4","2">>, <<"5","8">>,
              <<>>, <<"B","9">>)

Lines == {LineSirius, LineClassN, LineLowerG, LineNoType, LineOtherNotation,
          LineEmpty, LineNoId, LineNoRa, LineNoDe, LineNoMag}

\* Every text of 1 .. MaxLines lines, as data.split("\n") returns it.
Texts == UNION {[1 .. n -> Lines] : n \in 1 .. MaxLines}

----------------------------------------------------------------------------
(* createMaterials and spectralClassToColor *)

starClasses == <<"O", "W", "B", "A", "F", "G", "K", "M", "C", "S">>

LowerCase == <<"a","b","c","d","e","f","g","h","i","j","k","l","m",
               "n","o","p","q","r","s","t","u","v","w","x","y","z">>
UpperCase == <<"A","B","C","D","E","F","G","H","I","J","K","L","M",
               "N","O","P","Q","R","S","T","U","V","W","X","Y","Z">>

\* String.prototype.toUpperCase() on a one-character string.
toUpperCase(c) ==
  IF \E i \in 1 .. Len(LowerCase) : LowerCase[i] = c
    THEN UpperCase[CHOOSE i \in 1 .. Len(LowerCase) : LowerCase[i] = c]
    ELSE c

\* The colour of a class: the table in thousandths, each channel squared
\* (so the result is in millionths).
spectralClassToColor(cls) ==
  LET u     == toUpperCase(cls)
      color == CASE u \in {"O", "W"}      -> <<570, 710, 1000>>
                 [] u = "B"               -> <<630, 750, 1000>>
                 [] u = "A"               -> <<830, 875, 1000>>
                 [] u = "F"               -> <<970, 950, 1000>>
                 [] u = "G"               -> <<1000, 920, 880>>
                 [] u = "K"               -> <<1000, 850, 700>>
                 [] u \in {"M", "C", "S"} -> <<1000, 700, 420>>
                 [] OTHER                 -> <<1000, 1000, 1000>>
  IN  <<color[1] * color[1], color[2] * color[2], color[3] * color[3]>>

\* The Material that one round of the reduce creates for cls.
newMaterial(cls) ==
  LET color == spectralClassToColor(cls)
  IN  [emissiveFactor  |-> color,
       baseColorFactor |-> color \o <<1000000>>,
       metallicFactor  |-> 0,
       roughnessFactor |-> 1,
       extras          |-> [cls |-> cls]]

\* A plausible slip: the Material is created once, before the reduce, and
\* every class is given that same object, whose fields the last round sets.
reduceStepShared(st, cls) ==
  [doc |-> [st.doc EXCEPT !.materials = <<newMaterial(cls)>>],
   acc |-> st.acc @@ (cls :> 1)]

\* One round of starClasses.reduce: createMaterial() adds a Material to the
\* document, acc[cls] refers to it.
reduceStep(st, cls) ==
  [doc |-> [st.doc EXCEPT !.materials = Append(@, newMaterial(cls))],
   acc |-> st.acc @@ (cls :> Len(st.doc.materials) + 1)]

RECURSIVE reduce(_, _)
reduce(st, classes) ==
  IF classes = <<>> THEN st
  ELSE reduce(reduceStep(st, Head(classes)), Tail(classes))

\* createMaterials(): the document with its materials added, and the map
\* from class letter to Material.
createMaterials(doc) == reduce([doc |-> doc, acc |-> <<>>], starClasses)

----------------------------------------------------------------------------
(* render: the arithmetic of one star *)

\* n / d rounded to the nearest integer, halves away from zero: what
\* parseFloat(x.toFixed(k)) keeps of x.
RoundDiv(n, d) ==
  (IF n < 0 THEN -1 ELSE 1) * ((2 * Abs(n) + d) \div (2 * d))

\* The number 1 in hundred-millionths, the unit of the components of a Quat
\* and of a transformed Vec3.
One == 100000000

\* a * b for two numbers in hundred-millionths, rounded to the nearest one;
\* the factors are split at 10000 to stay within the integers.
Times(a, b) ==
  LET s  == IF (a < 0) = (b < 0) THEN 1 ELSE -1
      a1 == Abs(a) \div 10000
      a0 == Abs(a) % 10000
      b1 == Abs(b) \div 10000
      b0 == Abs(b) % 10000
  IN  s * (a1 * b1
            + (a1 * b0 + a0 * b1 + (a0 * b0 + 50000000) \div 10000) \div 10000)

\* Math.sin and Math.cos of half the angle (angle * 0.5 * DEG_TO_RAD), in
\* hundred-millionths, for the angles of the bounded catalog.
SinHalf(angle) ==
  CASE angle = 0 -> 0
    [] angle = 364633500 -> 77321571
    [] angle = 648000000 -> 100000000
    [] angle = 972000000 -> 70710678
    [] angle = -60178000 -> -14535877
    [] angle = 216000000 -> 50000000
    [] angle = -108000000 -> -25881905

CosHalf(angle) ==
  CASE angle = 0 -> 100000000
    [] angle = 364633500 -> 63414309
    [] angle = 648000000 -> 0
    [] angle = 972000000 -> -70710678
    [] angle = -60178000 -> 98937901
    [] angle = 216000000 -> 86602540
    [] angle = -108000000 -> 96592583

UP == [x |-> 0, y |-> 1, z |-> 0]
RIGHT == [x |-> 1, y |-> 0, z |-> 0]
FORWARD == [x |-> 0, y |-> 0, z |-> -1]

\* new Quat(): the identity.
newQuat == [x |-> 0, y |-> 0, z |-> 0, w |-> One]

\* Quat.setFromAxisAngle(axis, angle): this.x = sa * axis.x, this.y =
\* sa * axis.y, this.z = sa * axis.z, this.w = ca; returns this.
setFromAxisAngle(self, axis, angle) ==
  LET sa == SinHalf(angle)
      ca == CosHalf(angle)
  IN  [self EXCEPT !.x = sa * axis.x, !.y = sa * axis.y, !.z = sa * axis.z,
                   !.w = ca]

\* The Hamilton product lhs * rhs.
product(lhs, rhs) ==
  [x |-> Times(lhs.w, rhs.x) + Times(lhs.x, rhs.w)
           + Times(lhs.y, rhs.z) - Times(lhs.z, rhs.y),
   y |-> Times(lhs.w, rhs.y) + Times(lhs.y, rhs.w)
           + Times(lhs.z, rhs.x) - Times(lhs.x, rhs.z),
   z |-> Times(lhs.w, rhs.z) + Times(lhs.z, rhs.w)
           + Times(lhs.x, rhs.y) - Times(lhs.y, rhs.x),
   w |-> Times(lhs.w, rhs.w) - Times(lhs.x, rhs.x)
           - Times(lhs.y, rhs.y) - Times(lhs.z, rhs.z)]

\* A plausible slip: q.mul(q1).mul(q2), which multiplies onto what q held.
mulOntoSelf(self, lhs, rhs) == product(product(self, lhs), rhs)

\* Quat.mul2(lhs, rhs): the components of lhs and rhs are read, then
\* this.x, this.y, this.z and this.w are set to those of lhs * rhs; returns
\* this.
mul2(self, lhs, rhs) ==
  LET p == product(lhs, rhs)
  IN  [self EXCEPT !.x = p.x, !.y = p.y, !.z = p.z, !.w = p.w]

\* Quat.transformVector(vec), with a new Vec3 for the result: vec (one of
\* the unit vectors above) rotated by qq.
transformVector(qq, vec) ==
  LET ix == qq.w * vec.x + qq.y * vec.z - qq.z * vec.y
      iy == qq.w * vec.y + qq.z * vec.x - qq.x * vec.z
      iz == qq.w * vec.z + qq.x * vec.y - qq.y * vec.x
      iw == (0 - qq.x) * vec.x - qq.y * vec.y - qq.z * vec.z
      nx == 0 - qq.x
      ny == 0 - qq.y
      nz == 0 - qq.z
  IN  [x |-> Times(ix, qq.w) + Times(iw, nx) + Times(iy, nz) - Times(iz, ny),
       y |-> Times(iy, qq.w) + Times(iw, ny) + Times(iz, nx) - Times(ix, nz),
       z |-> Times(iz, qq.w) + Times(iw, nz) + Times(ix, ny) - Times(iy, nx)]

\* 2 ** (r / 2000) in millionths, for the magnitudes of the bounded catalog.
Exp2Frac(r) ==
  CASE r = 0 -> 1000000
    [] r = 1000 -> 1414214
    [] r = 1460 -> 1658639
    [] r = 1500 -> 1681793
    [] r = 1800 -> 1866066

\* A plausible slip: the sign of the exponent is reversed, (mag - 6) / 4,
\* which gives the reciprocal.
starScaleReversed(mag) ==
  IF mag.inf = 1 THEN 900000000
  ELSE LET e == 6000 - Milli(mag)
           k == e \div 2000
           f == Exp2Frac(e % 2000)
           p == IF k >= 0 THEN f * 2 ^ k ELSE f \div 2 ^ (-k)
       IN  1000000000 \div (p \div 1000)

\* 4 ** ((6 - mag) / 4) = 2 ** ((6 - mag) / 2); the result is 15 * scale in
\* millionths (the division by 15 is done when the scale is rounded).  For
\* the magnitude Infinity, 4 ** -Infinity is 0.
starScale(mag) ==
  IF mag.inf = 1 THEN 0
  ELSE LET e == 6000 - Milli(mag)
           k == e \div 2000
           f == Exp2Frac(e % 2000)
       IN  IF k >= 0 THEN f * 2 ^ k ELSE f \div 2 ^ (-k)

\* The three rounded arrays of one star, from the combined rotation qq and
\* the scale.
rotationOf(qq) ==
  <<RoundDiv(qq.x, 1000000), RoundDiv(qq.y, 1000000), RoundDiv(qq.z, 1000000),
    RoundDiv(qq.w, 1000000)>>

scalesOf(scale) ==
  <<RoundDiv(scale, 150000), RoundDiv(scale, 150000), RoundDiv(scale, 150000)>>

translationOf(qq) ==
  LET coords == transformVector(qq, FORWARD)
  IN  <<RoundDiv(coords.x, 100000), RoundDiv(coords.y, 100000), RoundDiv(coords.z, 100000)>>

\* materials[sc]: undefined (0) when sc is no key of the map.
lookup(materials, sc) == IF sc \in DOMAIN materials THEN materials[sc] ELSE 0

\* The octagon: new Float32Array([...]) in units of 0.001 after the map.
coords ==
  <<0, 0, 0,   10, 0, 0,   7, 7, 0,   0, 10, 0,   -7, 7, 0,
    -10, 0, 0,   -7, -7, 0,   0, -10, 0,   7, -7, 0,   10, 0, 0>>

\* A plausible slip: the accessor is created inside the forEach callback, so
\* every star gets its own copy of the octagon.
addStarOwnGeometry(doc, acc, mat, node) ==
  LET copy == Len(doc.accessors) + 1
      prim == [POSITION |-> copy, material |-> mat, mode |-> 6]
      mesh == [primitives |-> <<prim>>]
  IN  [doc EXCEPT !.accessors = Append(@, doc.accessors[acc]),
                  !.meshes = Append(@, mesh),
                  !.nodes = Append(@, [node EXCEPT !.mesh = Len(doc.meshes) + 1])]

\* createPrimitive, createMesh and createNode for one star: the primitive
\* refers to the accessor acc and the Material mat, the mesh to the
\* primitive, the node to the mesh.
addStar(doc, acc, mat, node) ==
  LET prim == [POSITION |-> acc, material |-> mat, mode |-> 6]
      mesh == [primitives |-> <<prim>>]
  IN  [doc EXCEPT !.meshes = Append(@, mesh),
                  !.nodes = Append(@, [node EXCEPT !.mesh = Len(doc.meshes) + 1])]

\* A plausible slip: the new node is put in front of the scene's children.
addChildFirst(children, node) == <<node>> \o children

\* Scene.addChild(node): the node becomes the last child.
addChild(children, node) == Append(children, node)

----------------------------------------------------------------------------
(* main: what follows each step *)

\* A plausible slip: | for ||, so download() runs although the compressed
\* file is there.
afterCompressedStatEager(exists) == "download"

\* await compressedInputfileExists() || await download()
afterCompressedStat(exists) == IF exists THEN "uncompress" ELSE "download"

\* await uncompressedInputfileExists() || (...)
afterUncompressedStat(exists) ==
  IF exists THEN "createMaterials" ELSE "compressedInputfileExists"

\* (... || await download()) && await uncompress()
afterDownload(result) == IF result THEN "uncompress" ELSE "createMaterials"

\* A plausible slip: a missing file is read as the empty text.
readTextFileSyncLenient(exists, text) ==
  IF exists THEN [threw |-> FALSE, data |-> text]
            ELSE [threw |-> FALSE, data |-> <<LineEmpty>>]

\* Deno.readTextFileSync(filename): throws NotFound when the file is absent.
readTextFileSync(exists, text) ==
  IF exists THEN [threw |-> FALSE, data |-> text]
            ELSE [threw |-> TRUE, data |-> <<>>]

----------------------------------------------------------------------------
(* State *)

VARIABLES
  pc,                 \* the step main is about to take
  fileUncompressed,   \* bsc5.dat exists
  fileCompressed,     \* bsc5.dat.gz exists
  uncompressedStat,   \* what uncompressedInputfileExists() returned
  compressedStat,     \* what compressedInputfileExists() returned
  downloadResult,     \* what download() returned
  trace,              \* the steps of main that have finished, in order
  gltfDocument,       \* buffers, accessors, materials, meshes, nodes
  gltfScene,          \* the children of the scene: indices of nodes
  materials,          \* class letter -> index of its Material
  lines,              \* the text read from bsc5.dat, split into lines
  entries,            \* what parse returned
  acc,                \* the accessor render created (index), 0 before
  q1, q2, q,          \* the Quat objects render reuses
  next,               \* the index forEach is at
  glb                 \* starfield.glb has been written

vars == <<pc, fileUncompressed, fileCompressed, uncompressedStat,
          compressedStat, downloadResult, trace, gltfDocument, gltfScene,
          materials, lines, entries, acc, q1, q2, q, next, glb>>

fileVars == <<fileUncompressed, fileCompressed>>
statVars == <<uncompressedStat, compressedStat, downloadResult>>
dataVars == <<lines, entries>>
renderVars == <<acc, q1, q2, q, next>>
docVars == <<gltfDocument, gltfScene, materials>>

\* new Document(), createScene(); nothing else has run.
Init ==
  /\ pc = "uncompressedInputfileExists"
  /\ fileUncompressed \in BOOLEAN
  /\ fileCompressed \in BOOLEAN
  /\ uncompressedStat = "unset"
  /\ compressedStat = "unset"
  /\ downloadResult = "unset"
  /\ trace = <<>>
  /\ gltfDocument = [buffers |-> 0, accessors |-> <<>>, materials |-> <<>>,
                     meshes |-> <<>>, nodes |-> <<>>]
  /\ gltfScene = <<>>
  /\ materials = <<>>
  /\ lines = <<>>
  /\ entries = <<>>
  /\ acc = 0
  /\ q1 = newQuat
  /\ q2 = newQuat
  /\ q = newQuat
  /\ next = 1
  /\ glb = FALSE

YesNo(b) == IF b THEN "true" ELSE "false"

\* await uncompressedInputfileExists()
uncompressedInputfileExists ==
  /\ pc = "uncompressedInputfileExists"
  /\ uncompressedStat' = YesNo(fileUncompressed)
  /\ pc' = afterUncompressedStat(fileUncompressed)
  /\ trace' = Append(trace, "uncompressedInputfileExists")
  /\ UNCHANGED <<fileVars, compressedStat, downloadResult, docVars, dataVars,
                 renderVars, glb>>

\* await compressedInputfileExists()
compressedInputfileExists ==
  /\ pc = "compressedInputfileExists"
  /\ compressedStat' = YesNo(fileCompressed)
  /\ pc' = afterCompressedStat(fileCompressed)
  /\ trace' = Append(trace, "compressedInputfileExists")
  /\ UNCHANGED <<fileVars, uncompressedStat, downloadResult, docVars, dataVars,
                 renderVars, glb>>

\* download(), up to its first await: const response = await fetch(url).
\* The response has a body; or it has none and download returns false; or
\* fetch rejects, which ends main.
download ==
  /\ pc = "download"
  /\ trace' = Append(trace, "download")
  /\ \/ /\ downloadResult' = downloadResult
        /\ pc' = "downloadOpen"
     \/ /\ downloadResult' = "false"
        /\ pc' = afterDownload(FALSE)
     \/ /\ downloadResult' = "threw"
        /\ pc' = "failed"
  /\ UNCHANGED <<fileVars, uncompressedStat, compressedStat, docVars,
                 dataVars, renderVars, glb>>

\* download(), its second await: Deno.open(filenameCompressed, {write,
\* create}) creates bsc5.dat.gz; or it rejects (no permission, say).
downloadOpen ==
  /\ pc = "downloadOpen"
  /\ \/ /\ fileCompressed' = TRUE
        /\ downloadResult' = downloadResult
        /\ pc' = "downloadPipe"
     \/ /\ fileCompressed' = fileCompressed
        /\ downloadResult' = "threw"
        /\ pc' = "failed"
  /\ UNCHANGED <<fileUncompressed, uncompressedStat, compressedStat, trace,
                 docVars, dataVars, renderVars, glb>>

\* download(), its third await: response.body.pipeTo(file.writable), then
\* return true; or the pipe rejects and leaves the file behind.
downloadPipe ==
  /\ pc = "downloadPipe"
  /\ \/ /\ downloadResult' = "true"
        /\ pc' = afterDownload(TRUE)
     \/ /\ downloadResult' = "threw"
        /\ pc' = "failed"
  /\ UNCHANGED <<fileVars, uncompressedStat, compressedStat, trace, docVars,
                 dataVars, renderVars, glb>>

\* uncompress(), up to its await: Deno.run starts gunzip, or throws because
\* there is no gunzip.
uncompress ==
  /\ pc = "uncompress"
  /\ trace' = Append(trace, "uncompress")
  /\ \/ pc' = "uncompressStatus"
     \/ pc' = "failed"
  /\ UNCHANGED <<fileVars, statVars, docVars, dataVars, renderVars, glb>>

\* await p.status(): gunzip has replaced bsc5.dat.gz by bsc5.dat; or it has
\* exited with an error and left the files as they are (the status is not
\* looked at).
uncompressStatus ==
  /\ pc = "uncompressStatus"
  /\ \/ /\ fileCompressed
        /\ fileUncompressed' = TRUE
        /\ fileCompressed' = FALSE
     \/ UNCHANGED fileVars
  /\ pc' = "createMaterials"
  /\ UNCHANGED <<statVars, trace, docVars, dataVars, renderVars, glb>>

\* const materials = createMaterials()
createMaterialsCall ==
  /\ pc = "createMaterials"
  /\ LET r == createMaterials(gltfDocument)
     IN  /\ gltfDocument' = r.doc
         /\ materials' = r.acc
  /\ pc' = "parse"
  /\ trace' = Append(trace, "createMaterials")
  /\ UNCHANGED <<fileVars, statVars, gltfScene, dataVars, renderVars, glb>>

\* const entries = parse(Deno.readTextFileSync(filename)): the file holds
\* any of the bounded texts.
parseCall ==
  /\ pc = "parse"
  /\ \E text \in Texts :
       LET r == readTextFileSync(fileUncompressed, text)
       IN  IF r.threw
             THEN /\ pc' = "failed"
                  /\ trace' = Append(trace, "readTextFileSync")
                  /\ UNCHANGED dataVars
             ELSE /\ lines' = r.data
                  /\ entries' = parse(r.data)
                  /\ pc' = "render"
                  /\ trace' = Append(trace, "parse")
  /\ UNCHANGED <<fileVars, statVars, docVars, renderVars, glb>>

\* render, up to the forEach: the buffer, the octagon's accessor and the
\* three Quat objects.
renderBegin ==
  /\ pc = "render"
  /\ gltfDocument' =
       [gltfDocument EXCEPT !.buffers = @ + 1,
                            !.accessors = Append(@, [type |-> "VEC3", array |-> coords])]
  /\ acc' = Len(gltfDocument.accessors) + 1
  /\ q1' = newQuat
  /\ q2' = newQuat
  /\ q' = newQuat
  /\ next' = 1
  /\ pc' = "forEach"
  /\ trace' = Append(trace, "render")
  /\ UNCHANGED <<fileVars, statVars, gltfScene, materials, dataVars, glb>>

\* One call of the forEach callback, for entries[next].
renderStar ==
  /\ pc = "forEach"
  /\ next <= Len(entries)
  /\ LET star == entries[next]
         mat  == lookup(materials, star.sc)
         r1   == setFromAxisAngle(q1, UP, star.ra.v)
         r2   == setFromAxisAngle(q2, RIGHT, star.de.v)
         r    == mul2(q, r1, r2)
         node == [mesh        |-> 0,
                  scale       |-> scalesOf(starScale(star.mag)),
                  rotation    |-> rotationOf(r),
                  translation |-> translationOf(r),
                  extras      |-> [mag |-> star.mag, bsn |-> star.bsn,
                                   name |-> star.name]]
         doc  == addStar(gltfDocument, acc, mat, node)
     IN  /\ q1' = r1
         /\ q2' = r2
         /\ q' = r
         /\ gltfDocument' = doc
         /\ gltfScene' = addChild(gltfScene, Len(doc.nodes))
  /\ next' = next + 1
  /\ UNCHANGED <<pc, fileVars, statVars, trace, materials, dataVars, acc, glb>>

\* The forEach is over: await (new WebIO()).writeBinary(gltfDocument),
\* which gives the binary or rejects; a rejection ends main.
writeBinary ==
  /\ pc = "forEach"
  /\ next > Len(entries)
  /\ \/ pc' = "writeFileSync"
     \/ pc' = "failed"
  /\ trace' = Append(trace, "writeBinary")
  /\ UNCHANGED <<fileVars, statVars, docVars, dataVars, renderVars, glb>>

\* Deno.writeFileSync("starfield.glb", binary): the file is written, or the
\* call throws (no permission, say) and there is no file.
writeFileSync ==
  /\ pc = "writeFileSync"
  /\ \/ glb' = TRUE /\ pc' = "done"
     \/ glb' = glb /\ pc' = "failed"
  /\ trace' = Append(trace, "writeFileSync")
  /\ UNCHANGED <<fileVars, statVars, docVars, dataVars, renderVars>>

Next ==
  \/ uncompressedInputfileExists
  \/ compressedInputfileExists
  \/ download
  \/ downloadOpen
  \/ downloadPipe
  \/ uncompress
  \/ uncompressStatus
  \/ createMaterialsCall
  \/ parseCall
  \/ renderBegin
  \/ renderStar
  \/ writeBinary
  \/ writeFileSync

Spec == Init /\ [][Next]_vars

----------------------------------------------------------------------------
(* Properties *)

Ran(step) == \E i \in 1 .. Len(trace) : trace[i] = step
At(step) == CHOOSE i \in 1 .. Len(trace) : trace[i] = step

\* parse has returned.
Parsed == Ran("parse")

\* At least one of id, right ascension, declination and magnitude of the
\* line does not parse to a number.
Malformed(l) ==
  \/ isNaN(parseInt(substring(l, 0, 4)))
  \/ isNaN(parseFloat(substring(l, 75, 77)))
  \/ isNaN(parseFloat(substring(l, 77, 79)))
  \/ isNaN(parseFloat(substring(l, 79, 83)))
  \/ isNaN(parseFloat(substring(l, 84, 86)))
  \/ isNaN(parseFloat(substring(l, 86, 88)))
  \/ isNaN(parseFloat(substring(l, 88, 90)))
  \/ isNaN(parseFloat(substring(l, 102, 107)))

WellFormed(l) == ~Malformed(l)

\* The indices of the lines that are not malformed, in increasing order.
KeptIndices == SelectSeq([i \in 1 .. Len(lines) |-> i], LAMBDA i : WellFormed(lines[i]))

SkippedCount == Cardinality({i \in 1 .. Len(lines) : Malformed(lines[i])})

\* The node that is the i-th child of the scene, its mesh's primitive, and
\* the record it was made from.
Child(i) == gltfDocument.nodes[gltfScene[i]]
Primitive(i) == gltfDocument.meshes[Child(i).mesh].primitives[1]
ClassLetters == {starClasses[k] : k \in 1 .. Len(starClasses)}

\* C1: parse returns one record per line that is not skipped (the number of
\* lines minus the number of skipped lines), and the records are in the
\* order of their lines.
C1_OneRecordPerKeptLineInOrder ==
  Parsed =>
    /\ Len(entries) = Len(lines) - SkippedCount
    /\ Len(entries) = Len(KeptIndices)
    /\ \A j \in 1 .. Len(entries) : entries[j] = parseLine(lines[KeptIndices[j]])

C1_Witness ==
  /\ Parsed
  /\ Len(lines) = 3
  /\ Malformed(lines[2])
  /\ Len(entries) = 2
  /\ entries[1] # entries[2]

\* C2: a line is dropped if and only if one of its four numbers fails to
\* parse; no record of parse, and no node of render, holds a NaN in id,
\* right ascension, declination or magnitude; and the records are those of
\* the text without its dropped lines.
C2_DroppedIffMalformed ==
  Parsed =>
    /\ \A i \in 1 .. Len(lines) : (parse(<<lines[i]>>) = <<>>) <=> Malformed(lines[i])
    /\ \A j \in 1 .. Len(entries) :
         /\ ~isNaN(entries[j].bsn)
         /\ ~isNaN(entries[j].ra)
         /\ ~isNaN(entries[j].de)
         /\ ~isNaN(entries[j].mag)
    /\ \A i \in 1 .. Len(gltfScene) :
         ~isNaN(Child(i).extras.bsn) /\ ~isNaN(Child(i).extras.mag)
    /\ entries = parse(SelectSeq(lines, WellFormed))

C2_Witness ==
  /\ pc = "done"
  /\ Len(lines) = 3
  /\ lines[1] = LineOtherNotation
  /\ entries[1].mag = Infinite(1)
  /\ lines[2] = LineNoDe
  /\ Len(entries) = 2
  /\ Len(gltfScene) = 2

\* C3: N records give N children of the scene, each referring to one of the
\* at most 10 shared materials and to the one accessor of the octagon.
C3_EveryNodeSharesMaterialAndGeometry ==
  Ran("render") =>
    /\ Len(gltfScene) = next - 1
    /\ Ran("writeBinary") => Len(gltfScene) = Len(entries)
    /\ Len(gltfDocument.accessors) = 1
    /\ Len(gltfDocument.materials) <= 10
    /\ \A i \in 1 .. Len(gltfScene) :
         /\ Primitive(i).POSITION = acc
         /\ Primitive(i).material \in 1 .. Len(gltfDocument.materials)

\* C4: a record whose spectral class is none of the 10 letters gets a node
\* whose primitive refers to a defined material, the white default.
C4_UnknownClassGetsDefaultMaterial ==
  \A i \in 1 .. Len(gltfScene) :
    entries[i].sc \notin ClassLetters =>
      /\ Primitive(i).material \in 1 .. Len(gltfDocument.materials)
      /\ gltfDocument.materials[Primitive(i).material].emissiveFactor
           = <<1000000, 1000000, 1000000>>

\* The palette: nothing before createMaterials has run, the 10 descriptors
\* after.
C5_Palette ==
  IF Ran("createMaterials")
    THEN /\ Len(gltfDocument.materials) = 10
         /\ DOMAIN materials = ClassLetters
         /\ Cardinality({materials[c] : c \in ClassLetters}) = 10
         /\ Cardinality({gltfDocument.materials[k] : k \in 1 .. 10}) = 10
         /\ \A c \in ClassLetters :
              LET m == gltfDocument.materials[materials[c]]
              IN  /\ m.extras.cls = c
                  /\ SubSeq(m.baseColorFactor, 1, 3) = m.emissiveFactor
                  /\ \A k \in 1 .. 3 :
                       m.emissiveFactor[k] >= 0 /\ m.emissiveFactor[k] <= 1000000
    ELSE gltfDocument.materials = <<>> /\ materials = <<>>

\* C5: createMaterials leaves exactly 10 distinct descriptors, one under
\* each letter of OWBAFGKMCS, with extras.cls that letter, the same RGB as
\* emissive and base colour, every channel in [0, 1]; there is none before,
\* and none is added or changed afterwards.
C5_TenFixedDescriptors ==
  /\ []C5_Palette
  /\ [][Ran("createMaterials") =>
          /\ gltfDocument.materials' = gltfDocument.materials
          /\ materials' = materials]_vars

C5_Witness ==
  /\ pc = "done"
  /\ Len(gltfScene) = 3
  /\ \E i \in 1 .. 3 : entries[i].sc \notin ClassLetters
  /\ Len(gltfDocument.materials) = 10

\* The transform of one star as a function of its triple alone: the
\* rotation by ra about UP times the rotation by de about RIGHT, written out
\* in the sines and cosines of the half angles.
OwnTransform(star) ==
  LET s1 == SinHalf(star.ra.v)
      c1 == CosHalf(star.ra.v)
      s2 == SinHalf(star.de.v)
      c2 == CosHalf(star.de.v)
      c  == [x |-> Times(c1, s2), y |-> Times(s1, c2),
             z |-> 0 - Times(s1, s2), w |-> Times(c1, c2)]
  IN  [rotation    |-> rotationOf(c),
       scale       |-> scalesOf(starScale(star.mag)),
       translation |-> translationOf(c)]

NodeTransform(i) ==
  [rotation    |-> Child(i).rotation,
   scale       |-> Child(i).scale,
   translation |-> Child(i).translation]

\* C6: the transform of a star depends on its own right ascension,
\* declination and magnitude only: two nodes made from the same triple have
\* the same rotation, scale and translation whatever came before them, and
\* each is the value of a function of the triple alone, in which q1, q2 and
\* q do not occur.
C6_TransformDependsOnOwnTripleOnly ==
  /\ \A i, j \in 1 .. Len(gltfScene) :
       (/\ entries[i].ra = entries[j].ra
        /\ entries[i].de = entries[j].de
        /\ entries[i].mag = entries[j].mag) => NodeTransform(i) = NodeTransform(j)
  /\ \A i \in 1 .. Len(gltfScene) : NodeTransform(i) = OwnTransform(entries[i])

C6_Witness ==
  /\ Len(gltfScene) = 3
  /\ entries[1] = entries[3]
  /\ entries[2].ra # entries[1].ra
  /\ entries[2].de # entries[1].de
  /\ NodeTransform(2) # NodeTransform(1)

\* a < b for two magnitudes, each finite or Infinity.
Less(a, b) ==
  a.inf = 0 /\ (b.inf = 1 \/ (b.inf = 0 /\ Milli(a) < Milli(b)))

\* C7 as claimed: of two stars, the one of smaller magnitude has the
\* strictly greater scale stored on its node.
C7_StoredScaleStrictlyDecreasing ==
  \A i, j \in 1 .. Len(gltfScene) :
    Less(entries[i].mag, entries[j].mag) => Child(i).scale[1] > Child(j).scale[1]

\* C7 as amended: of two stars, the one of smaller magnitude has a stored
\* scale greater than or equal to the other's, on all three axes; before
\* the rounding to 2 decimals its scale is strictly greater (magnitudes in
\* the catalog's decimal notation).
C7_StoredScaleNonIncreasing ==
  \A i, j \in 1 .. Len(gltfScene) :
    Less(entries[i].mag, entries[j].mag) =>
      /\ \A k \in 1 .. 3 : Child(i).scale[k] >= Child(j).scale[k]
      /\ starScale(entries[i].mag) > starScale(entries[j].mag)

C7_Witness ==
  /\ Len(gltfScene) = 3
  /\ Less(entries[1].mag, entries[2].mag)
  /\ Less(entries[2].mag, entries[3].mag)
  /\ Child(1).scale[1] > Child(2).scale[1]
  /\ Child(2).scale[1] = Child(3).scale[1]

\* C8: while bsc5.dat does not exist, nothing has been parsed, render has
\* not started and starfield.glb has not been written.
C8_NoInputNoOutput ==
  ~fileUncompressed =>
    /\ ~Parsed
    /\ lines = <<>>
    /\ entries = <<>>
    /\ gltfScene = <<>>
    /\ pc \notin {"render", "forEach", "writeFileSync", "done"}
    /\ ~Ran("render") /\ ~Ran("writeBinary") /\ ~Ran("writeFileSync")
    /\ ~glb

C8_Witness ==
  /\ pc = "failed"
  /\ ~fileUncompressed
  /\ downloadResult = "false"
  /\ trace[Len(trace)] = "readTextFileSync"

\* What has been appended to the scene stays as it is.
ChildrenKept ==
  /\ Len(gltfScene') >= Len(gltfScene)
  /\ \A i \in 1 .. Len(gltfScene) :
       /\ gltfScene'[i] = gltfScene[i]
       /\ gltfDocument'.nodes[gltfScene[i]] = Child(i)
       /\ gltfDocument'.meshes[Child(i).mesh] = gltfDocument.meshes[Child(i).mesh]

\* The i-th child is made from the i-th record: its extras are that
\* record's, its material is the descriptor stored under that record's
\* class letter.
ChildrenFollowEntries ==
  /\ Len(gltfScene) = next - 1
  /\ Ran("writeBinary") => Len(gltfScene) = Len(entries)
  /\ \A i \in 1 .. Len(gltfScene) :
       /\ Child(i).extras = [mag |-> entries[i].mag, bsn |-> entries[i].bsn,
                             name |-> entries[i].name]
       /\ entries[i].sc \in DOMAIN materials
       /\ Primitive(i).material = lookup(materials, entries[i].sc)
       /\ Primitive(i).material \in 1 .. Len(gltfDocument.materials)
       /\ gltfDocument.materials[Primitive(i).material].extras.cls
            = entries[i].sc

\* C9: the i-th child of the scene is the node of the i-th record: its
\* extras are that record's magnitude, id and name, its material is the one
\* stored under that record's class letter; children are appended in
\* catalog order and never reordered, removed or changed afterwards.
C9_ChildrenInCatalogOrder ==
  /\ []ChildrenFollowEntries
  /\ [][ChildrenKept]_vars

Acquisition == {"uncompressedInputfileExists", "compressedInputfileExists",
                "download", "uncompress"}

\* The positions of main inside download() and inside uncompress().
InDownload == {"download", "downloadOpen", "downloadPipe"}
InUncompress == {"uncompress", "uncompressStatus"}

\* C10: download runs only after both files were found absent; uncompress
\* only after bsc5.dat was found absent and either bsc5.dat.gz was found or
\* download returned true, and after the download; neither runs when
\* bsc5.dat was found; the file is read only after all of them.
C10_AcquisitionOrder ==
  /\ (Ran("download") \/ pc \in InDownload) =>
       uncompressedStat = "false" /\ compressedStat = "false"
  /\ (Ran("uncompress") \/ pc \in InUncompress) =>
       /\ uncompressedStat = "false"
       /\ compressedStat = "true" \/ downloadResult = "true"
       /\ compressedStat = "false" => Ran("download")
  /\ (Ran("uncompress") /\ Ran("download")) => At("download") < At("uncompress")
  /\ uncompressedStat = "true" =>
       ~Ran("download") /\ ~Ran("uncompress") /\ pc \notin InDownload \cup InUncompress
  /\ \A i \in 1 .. Len(trace) :
       trace[i] \in {"readTextFileSync", "parse"} =>
         /\ pc \notin Acquisition \cup InDownload \cup InUncompress
         /\ \A j \in 1 .. Len(trace) : trace[j] \in Acquisition => j < i

C10_Witness ==
  /\ Parsed
  /\ Ran("download")
  /\ Ran("uncompress")
  /\ At("download") < At("uncompress")
  /\ At("uncompress") < At("parse")

====
